---- MODULE Spec2Model ----
(***************************************************************************)
(* Model of guv's pyuv hub (guv/hubs/pyuv.py) and of the trampoline        *)
(* primitive (guv/hubs/trampoline.py).                                     *)
(*                                                                         *)
(* Exactly one context runs at a time: the root greenlet, the hub greenlet *)
(* or one task greenlet (variable cur).  Tasks are started from the hub's  *)
(* loop, so a running task is always nested inside a hub callback and the  *)
(* hub is resumed inside that callback when the task switches back or      *)
(* finishes.  The pyuv loop dispatches a callback only for a handle that   *)
(* is still active.                                                        *)
(***************************************************************************)
EXTENDS Integers, FiniteSets, Sequences, TLC

NumTasks == 2
MaxTimers == 2
MaxFd == 1

READ == "read"
WRITE == "write"

Task == 1..NumTasks
Fd == 1..MaxFd
\* the listener and the Timer that the local variables listener and timer of
\* the trampoline frame of task t refer to have the number t; the Timers of
\* the calls that tasks schedule themselves have the numbers of CallId
ListenerId == Task
CallId == (NumTasks + 1)..(NumTasks + MaxTimers)
TimerId == Task \cup CallId

VARIABLES
  running,     \* Hub.running
  stopping,    \* Hub.stopping
  stop_flag,   \* loop.stop() has been requested and not yet consumed by loop.run()
  sig_active,  \* the pyuv.Signal handle of Hub.__init__ is started
  listeners,   \* Hub.listeners: listeners[evtype][fd] is a listener id, 0 when absent
  lobj,        \* the UvFdListener objects (with their pyuv.Poll handle)
  timers,      \* the pyuv.Timer handles
  task,        \* the task greenlets
  cur,         \* the greenlet that is executing
  hub,         \* the hub greenlet: where it is, what reaches it when resumed, and
               \* how a trampoline call made in it ended
  root,        \* the root greenlet (parent of the hub greenlet)
  lastExit,    \* how the last Hub.run() that entered the loop left it
  abortcb,     \* progress of a readiness callback in which abort() was called
  calls        \* the calls scheduled by schedule_call_now and not yet made

vars == <<running, stopping, stop_flag, sig_active, listeners, lobj, timers,
          task, cur, hub, root, lastExit, abortcb, calls>>

RootCtx == [k |-> "root", t |-> 0]
HubCtx == [k |-> "hub", t |-> 0]
TaskCtx(t) == [k |-> "task", t |-> t]

\* a listener object: owner and timer are the task its callback resumes and
\* the timer of the same trampoline call (0: none); removes counts the calls
\* of Hub.remove, late records a dispatch that found its trampoline call
\* over, err a Hub.remove that raised
NoListener == [evtype |-> READ, fd |-> 1, owner |-> 0, timer |-> 0, handle |-> "unused",
               removes |-> 0, late |-> FALSE, err |-> FALSE]
\* a timer handle: "active" once started, "fired" once the loop has stopped
\* it to run its callback, "closed" after stop() and close(); fires counts
\* the calls of its timer_callback, err records a stop() or close() on the
\* closed handle, which pyuv answers by raising
NoTimer == [owner |-> 0, state |-> "unused", fires |-> 0, late |-> FALSE, err |-> FALSE]
\* a task: "new" until the loop starts it, "run" while it executes its own
\* code, "wait" while it is suspended in trampoline, "ret" when a call of
\* trampoline or Hub.run it made has just ended, "dead" at its end.  evtype,
\* fd, listener and timer are those of the trampoline call, presize the size
\* of the registry when it was made, result how the call ended, via the
\* event that resumed it, raced whether the other event was due too, dead
\* the (evtype, fd) of a removed listener that the task still refers to
NoTask == [pc |-> "new", evtype |-> READ, fd |-> 1, listener |-> 0, timer |-> 0,
           presize |-> 0, result |-> "none", via |-> "none", raced |-> FALSE,
           dead |-> <<>>]

Least(S) == CHOOSE x \in S : \A y \in S : x <= y
FreeTimers == {tm \in CallId : timers[tm].state = "unused"}
RegSize(reg) == Cardinality({k \in {READ, WRITE} \X Fd : reg[k[1]][k[2]] # 0})

Init ==
  /\ running = FALSE
  /\ stopping = FALSE
  /\ stop_flag = FALSE
  /\ sig_active = TRUE
  /\ listeners = [e \in {READ, WRITE} |-> [f \in Fd |-> 0]]
  /\ lobj = [l \in ListenerId |-> NoListener]
  /\ timers = [tm \in TimerId |-> NoTimer]
  /\ task = [t \in Task |-> NoTask]
  /\ cur = RootCtx
  /\ hub = [pc |-> "init", arg |-> 0, exc |-> FALSE, res |-> "none"]
  /\ root = [kbd |-> 0]
  /\ lastExit = "none"
  /\ abortcb = "none"
  /\ calls = <<>>

(***************************************************************************)
(* Timer                                                                   *)
(***************************************************************************)

\* timer_handle.stop(); timer_handle.close(): pyuv raises on a closed handle
StopClose(h) ==
  IF h.state = "closed"
  THEN [h EXCEPT !.err = TRUE]
  ELSE [h EXCEPT !.state = "closed", !.owner = 0]

cancel_unguarded(th, tm) == [th EXCEPT ![tm] = StopClose(@)]

cancel_inverted(th, tm) ==
  IF th[tm].state = "closed" THEN [th EXCEPT ![tm] = StopClose(@)] ELSE th

\* Timer.cancel
cancel(th, tm) ==
  IF th[tm].state # "closed" THEN [th EXCEPT ![tm] = StopClose(@)] ELSE th

schedule_call_global_unstarted(th, tm, owner) ==
  [th EXCEPT ![tm] = [NoTimer EXCEPT !.owner = owner, !.state = "fired"]]

\* Hub.schedule_call_global: a started one-shot timer handle owned by task
\* owner (0: a callback that runs in the hub and resumes no task)
schedule_call_global(th, tm, owner) ==
  [th EXCEPT ![tm] = [NoTimer EXCEPT !.owner = owner, !.state = "active"]]

fire_repeating(th, tm) == [th EXCEPT ![tm].fires = @ + 1]

\* the loop calls timer_callback of a handle started with repeat 0: the
\* handle is stopped first
fire(th, tm) == [th EXCEPT ![tm].state = "fired", ![tm].fires = @ + 1]

\* the part of timer_callback after cb(*args, **kwargs); skipped when cb raised
timer_callback_cleanup(th, tm, raised) ==
  IF raised THEN th
  ELSE IF th[tm].state # "closed" THEN [th EXCEPT ![tm] = StopClose(@)] ELSE th

(***************************************************************************)
(* Listener registry                                                       *)
(***************************************************************************)

\* AbstractHub._add_listener: one listener per (evtype, fd), else a usage error
add_listener(reg, evtype, fd, l) ==
  IF reg[evtype][fd] # 0
  THEN [ok |-> FALSE, reg |-> reg]
  ELSE [ok |-> TRUE, reg |-> [reg EXCEPT ![evtype][fd] = l]]

\* AbstractHub._remove_listener: delete the entry of the listener's (evtype, fd)
remove_listener(reg, evtype, fd) ==
  IF reg[evtype][fd] = 0
  THEN [ok |-> FALSE, reg |-> reg]
  ELSE [ok |-> TRUE, reg |-> [reg EXCEPT ![evtype][fd] = 0]]

add_unchecked(reg, lo, l, evtype, fd, owner, tm) ==
  [ok |-> TRUE,
   reg |-> [reg EXCEPT ![evtype][fd] = l],
   lo |-> [lo EXCEPT ![l] = [NoListener EXCEPT !.evtype = evtype, !.fd = fd,
                                !.owner = owner, !.timer = tm, !.handle = "started"]]]

\* Hub.add: the poll handle and the listener object are created first, then
\* the listener is registered, then the poll handle is started.  When the
\* registration fails nothing refers to the listener object any more and
\* its poll handle is left created, neither started nor closed.
add(reg, lo, l, evtype, fd, owner, tm) ==
  LET created == [NoListener EXCEPT !.evtype = evtype, !.fd = fd, !.owner = owner,
                                    !.timer = tm, !.handle = "created"]
      r == add_listener(reg, evtype, fd, l)
  IN IF r.ok
     THEN [ok |-> TRUE, reg |-> r.reg,
           lo |-> [lo EXCEPT ![l] = [created EXCEPT !.handle = "started"]]]
     ELSE [ok |-> FALSE, reg |-> reg,
           lo |-> [lo EXCEPT ![l] = [NoListener EXCEPT !.handle = created.handle]]]

\* Hub.remove: unregister, then ref = False, stop(), close() and null the
\* handle; the callback of the closed handle is released
remove(reg, lo, l) ==
  LET r == remove_listener(reg, lo[l].evtype, lo[l].fd)
      counted == [lo EXCEPT ![l].removes = @ + 1]
  IN IF ~r.ok
     THEN [ok |-> FALSE, reg |-> reg, lo |-> [counted EXCEPT ![l].err = TRUE]]
     ELSE IF lo[l].handle = "none"
     THEN [ok |-> FALSE, reg |-> r.reg, lo |-> [counted EXCEPT ![l].err = TRUE]]
     ELSE [ok |-> TRUE, reg |-> r.reg,
           lo |-> [lo EXCEPT ![l] = [NoListener EXCEPT !.handle = "none",
                                                       !.removes = counted[l].removes]]]

(***************************************************************************)
(* Hub.run, Hub.abort, the signal handler                                  *)
(***************************************************************************)

\* the loop has something to wait for: an active, referenced handle or a
\* scheduled immediate callback
LoopAlive ==
  \/ sig_active
  \/ \E tm \in TimerId : timers[tm].state = "active"
  \/ \E l \in ListenerId : lobj[l].handle = "started"
  \/ \E t \in Task : task[t].pc = "new"
  \/ calls # <<>>

run_reset_on_error ==
  /\ IF cur.k = "task"
     THEN /\ task[cur.t].pc = "run"
          /\ IF stopping
             THEN /\ task' = [task EXCEPT ![cur.t].pc = "ret",
                                          ![cur.t].result = "run_returned"]
                  /\ UNCHANGED <<running, stopping, calls>>
             ELSE /\ running
                  /\ task' = [task EXCEPT ![cur.t].pc = "ret",
                                          ![cur.t].result = "run_RuntimeError"]
                  /\ running' = FALSE
                  /\ stopping' = FALSE
          /\ UNCHANGED <<hub, cur, lastExit, abortcb, calls>>
     ELSE /\ cur = RootCtx
          /\ hub.pc \in {"init", "dead"}
          /\ ~stopping
          /\ ~running
          /\ running' = TRUE
          /\ stopping' = FALSE
          /\ hub' = [pc |-> "loop", arg |-> 0, exc |-> FALSE, res |-> "none"]
          /\ cur' = HubCtx
          /\ lastExit' = "none"
          /\ abortcb' = "none"
          /\ UNCHANGED task
  /\ UNCHANGED <<stop_flag, sig_active, listeners, lobj, timers, root, calls>>

\* Hub.run up to loop.run(): called by a running task (a dispatched callback)
\* it returns or raises at once; called by the root greenlet on a hub that is
\* not in run(), it enters the loop
run ==
  /\ IF cur.k = "task"
     THEN /\ task[cur.t].pc = "run"
          /\ IF stopping
             THEN task' = [task EXCEPT ![cur.t].pc = "ret",
                                       ![cur.t].result = "run_returned"]
             ELSE /\ running
                  /\ task' = [task EXCEPT ![cur.t].pc = "ret",
                                          ![cur.t].result = "run_RuntimeError"]
          /\ UNCHANGED <<running, stopping, hub, cur, lastExit, abortcb, calls>>
     ELSE /\ cur = RootCtx
          /\ hub.pc \in {"init", "dead"}
          /\ ~stopping
          /\ ~running
          /\ running' = TRUE
          /\ stopping' = FALSE
          /\ hub' = [pc |-> "loop", arg |-> 0, exc |-> FALSE, res |-> "none"]
          /\ cur' = HubCtx
          /\ lastExit' = "none"
          /\ abortcb' = "none"
          /\ UNCHANGED task
  /\ UNCHANGED <<stop_flag, sig_active, listeners, lobj, timers, root, calls>>

run_finally_keeps_stopping ==
  /\ running' = FALSE
  /\ stopping' = stopping

\* the finally block of Hub.run
run_finally ==
  /\ running' = FALSE
  /\ stopping' = FALSE

\* loop.run() is over (path: "stop", "nowork" or "raise"): the finally block
\* runs, the hub greenlet ends and its parent, the root greenlet, continues
LeaveLoop(path) ==
  /\ run_finally
  /\ stop_flag' = FALSE
  /\ hub' = [pc |-> "dead", arg |-> 0, exc |-> FALSE, res |-> "none"]
  /\ cur' = RootCtx
  /\ lastExit' = path
  /\ UNCHANGED <<sig_active, listeners, lobj, timers, task, root, abortcb, calls>>

\* loop.run() returns: loop.stop() was called, or nothing is left to wait for
run_exit ==
  /\ cur = HubCtx
  /\ hub.pc = "loop"
  /\ stop_flag \/ ~LoopAlive
  /\ LeaveLoop(IF stop_flag THEN "stop" ELSE "nowork")

\* loop.run() raises
run_raise ==
  /\ cur = HubCtx
  /\ hub.pc = "loop"
  /\ LeaveLoop("raise")

\* the fields of the hub that Hub.abort reads and writes, and the stop
\* request of the loop
HubState == [running |-> running, stopping |-> stopping, stop_flag |-> stop_flag]

abort_state_unguarded(h) == [h EXCEPT !.stopping = TRUE, !.stop_flag = TRUE]

\* Hub.abort as a function of those fields: "if self.running: self.stopping
\* = True", then self.loop.stop()
abort_state(h) ==
  [h EXCEPT !.stopping = IF h.running THEN TRUE ELSE @, !.stop_flag = TRUE]

abort_without_flag ==
  /\ stopping' = stopping
  /\ stop_flag' = TRUE

abort_unconditional ==
  /\ stopping' = TRUE
  /\ stop_flag' = TRUE

\* the body of Hub.abort
abort_body ==
  /\ stopping' = abort_state(HubState).stopping
  /\ stop_flag' = abort_state(HubState).stop_flag

\* Hub.abort called by the root greenlet or by a running task
abort ==
  /\ cur.k \in {"root", "task"}
  /\ cur.k = "task" => task[cur.t].pc = "run"
  /\ abort_body
  /\ abortcb' = IF cur.k = "task" /\ hub.pc = "poll_cb" /\ abortcb = "none"
                THEN "pending" ELSE abortcb
  /\ UNCHANGED <<running, sig_active, listeners, lobj, timers, task, cur, hub, root,
                 lastExit, calls>>

signal_received_keeps_handle ==
  /\ cur = HubCtx
  /\ hub.pc = "loop"
  /\ sig_active
  /\ sig_active' = sig_active
  /\ abort_body
  /\ root' = [root EXCEPT !.kbd = @ + 1]
  /\ cur' = RootCtx
  /\ hub' = [pc |-> "signal_cb", arg |-> 0, exc |-> FALSE, res |-> "none"]
  /\ UNCHANGED <<running, listeners, lobj, timers, task, lastExit, abortcb, calls>>

\* Hub.signal_received for SIGINT, the only signal the handle is started for:
\* sig_handle.stop(), abort(), then KeyboardInterrupt is thrown into the
\* parent of the hub greenlet, which leaves the hub suspended in the handler
signal_received ==
  /\ cur = HubCtx
  /\ hub.pc = "loop"
  /\ sig_active
  /\ sig_active' = FALSE
  /\ abort_body
  /\ root' = [root EXCEPT !.kbd = @ + 1]
  /\ cur' = RootCtx
  /\ hub' = [pc |-> "signal_cb", arg |-> 0, exc |-> FALSE, res |-> "none"]
  /\ UNCHANGED <<running, listeners, lobj, timers, task, lastExit, abortcb, calls>>

\* the root greenlet switches back into the hub suspended in the signal handler
root_switch ==
  /\ cur = RootCtx
  /\ hub.pc = "signal_cb"
  /\ cur' = HubCtx
  /\ UNCHANGED <<running, stopping, stop_flag, sig_active, listeners, lobj, timers, task,
                 hub, root, lastExit, abortcb, calls>>

\* a callback that had switched to a task (or thrown into the root) gets
\* control back and returns to the loop
callback_return ==
  /\ cur = HubCtx
  /\ hub.pc \in {"timer_cb", "poll_cb", "call_cb", "signal_cb"}
  /\ timers' = IF hub.pc = "timer_cb" /\ hub.arg # 0
               THEN timer_callback_cleanup(timers, hub.arg, hub.exc) ELSE timers
  /\ hub' = [pc |-> "loop", arg |-> 0, exc |-> FALSE, res |-> "none"]
  /\ abortcb' = IF abortcb = "pending" /\ hub.pc = "poll_cb" THEN "completed" ELSE abortcb
  /\ UNCHANGED <<running, stopping, stop_flag, sig_active, listeners, lobj, task, cur,
                 root, lastExit, calls>>

(***************************************************************************)
(* trampoline                                                              *)
(***************************************************************************)

trampoline_finally_skip(th, tm) == th

\* the outer finally block of trampoline: timer.cancel() if a timer was made
trampoline_finally(th, tm) == IF tm # 0 THEN cancel(th, tm) ELSE th

leave_switch_on_return(reg, lo, l, how) ==
  IF how = "ok" THEN remove(reg, lo, l) ELSE [ok |-> TRUE, reg |-> reg, lo |-> lo]

\* the inner finally block of trampoline: hub.remove(listener), however
\* hub.switch() was left
leave_switch(reg, lo, l, how) == remove(reg, lo, l)

\* the trampoline frame of task t is gone: its closed Timer and its listener,
\* unless still registered, are garbage, and a timer_callback still executing
\* for that Timer has nothing left to stop or close
frame_timer(th, t) == IF th[t].state = "closed" THEN [th EXCEPT ![t] = NoTimer] ELSE th

frame_listener(lo, t) ==
  IF lo[t].handle = "started" THEN lo ELSE [lo EXCEPT ![t] = NoListener]

frame_callback(t) ==
  IF hub.pc = "timer_cb" /\ hub.arg = t /\ timers[t].state = "closed"
  THEN [hub EXCEPT !.arg = 0] ELSE hub

\* hub.switch() in task t is left with a value ("ok") or an exception: both
\* finally blocks run and the task goes on in the caller of trampoline
trampoline_exit(t, how, via, raced, lo, th) ==
  LET r == leave_switch(listeners, lo, task[t].listener, how)
  IN /\ listeners' = r.reg
     /\ lobj' = r.lo
     /\ timers' = trampoline_finally(th, task[t].timer)
     /\ task' = [task EXCEPT ![t].pc = "ret",
                             ![t].result = IF r.ok THEN how ELSE "KeyError",
                             ![t].via = via,
                             ![t].raced = raced]
     /\ cur' = TaskCtx(t)

\* trampoline(fd, read, write, timeout) called by the running task t, up to
\* hub.switch()
trampoline(t, fd, read, write, timeout) ==
  /\ cur = TaskCtx(t)
  /\ task[t].pc = "run"
  /\ UNCHANGED <<running, stopping, stop_flag, sig_active, root, lastExit, abortcb, calls>>
  /\ IF read = write
     THEN /\ task' = [task EXCEPT ![t].pc = "ret", ![t].result = "AssertionError"]
          /\ UNCHANGED <<listeners, lobj, timers, cur, hub, calls>>
     ELSE /\ LET tm == IF timeout THEN t ELSE 0
                 th == IF timeout THEN schedule_call_global(timers, tm, t) ELSE timers
                 l == t
                 evtype == IF read THEN READ ELSE WRITE
                 a == add(listeners, lobj, l, evtype, fd, t, tm)
                 called == [pc |-> "wait", evtype |-> evtype, fd |-> fd,
                            listener |-> l, timer |-> tm,
                            presize |-> RegSize(listeners), result |-> "none",
                            via |-> "none", raced |-> FALSE, dead |-> task[t].dead]
             IN /\ listeners' = a.reg
                /\ lobj' = a.lo
                /\ IF a.ok
                   THEN /\ timers' = th
                        /\ task' = [task EXCEPT ![t] = called]
                        /\ cur' = HubCtx
                        /\ hub' = [hub EXCEPT !.exc = FALSE]
                   ELSE /\ timers' = trampoline_finally(th, tm)
                        /\ task' = [task EXCEPT ![t] =
                                      [called EXCEPT !.pc = "ret", !.listener = 0,
                                                     !.result = "RuntimeError"]]
                        /\ UNCHANGED <<cur, hub, calls>>

\* trampoline(fd, read, write, timeout) called in the hub greenlet, by a
\* callback that the loop runs there.  "hub is not current" compares the Hub
\* object with a greenlet and holds always, so only the second assertion can
\* stop the call: the timer is scheduled and Hub.add is called; hub.switch()
\* then finds itself called in the hub greenlet and, whether it raises or
\* returns, the listener is removed and the timer cancelled.  res:
\* "AssertionError" when an assertion of trampoline stopped the call,
\* "RuntimeError" when Hub.add failed, "switch" when the call got as far as
\* hub.switch().
hub_trampoline(fd, read, write, timeout) ==
  /\ cur = HubCtx
  /\ hub.pc = "loop"
  /\ LET evtype == IF read THEN READ ELSE WRITE
         r == add_listener(listeners, evtype, fd, NumTasks + 1)
         res == IF read = write THEN "AssertionError"
                ELSE IF r.ok THEN "switch" ELSE "RuntimeError"
         left == IF read # write /\ r.ok THEN remove_listener(r.reg, evtype, fd).reg
                 ELSE listeners
     IN /\ \E raised \in BOOLEAN :
             /\ res # "switch" => raised
             /\ hub' = [pc |-> "call_cb", arg |-> 0, exc |-> raised, res |-> res]
        /\ listeners' = left
  /\ UNCHANGED <<running, stopping, stop_flag, sig_active, lobj, timers, task, cur, root,
                 lastExit, abortcb, calls>>

\* a hub callback resumes task t with a value (current.switch) or an
\* exception (current.throw); a greenlet that is not suspended any more
\* hands the switch, or the exception, back to its parent, the hub
Resume(t, how, via, raced, lo, th, pc, arg) ==
  IF t # 0 /\ task[t].pc = "wait"
  THEN /\ trampoline_exit(t, how, via, raced, lo, th)
       /\ hub' = [pc |-> pc, arg |-> arg, exc |-> FALSE, res |-> "none"]
  ELSE /\ lobj' = lo
       /\ timers' = th
       /\ hub' = [pc |-> pc, arg |-> arg, exc |-> (how # "ok"), res |-> "none"]
       /\ UNCHANGED <<listeners, task, cur, calls>>

(***************************************************************************)
(* The loop: events and the callbacks it dispatches                        *)
(***************************************************************************)

\* pyuv_cb of Hub.add, dispatched for a started poll handle whose descriptor
\* the loop found ready (e = "ready") or closed (e = "closed"): cb() whatever
\* the events and errno are.  racing: the timer of the same trampoline call
\* is due in the same loop pass.
pyuv_cb(l, e, racing) ==
  /\ cur = HubCtx
  /\ hub.pc = "loop"
  /\ lobj[l].handle = "started"
  /\ racing => lobj[l].timer # 0 /\ timers[lobj[l].timer].state = "active"
  /\ LET t == lobj[l].owner
         mine == task[t].pc = "wait" /\ task[t].listener = l
     IN Resume(t, "ok", e, racing,
               [lobj EXCEPT ![l].late = ~mine],
               timers, "poll_cb", 0)
  /\ UNCHANGED <<running, stopping, stop_flag, sig_active, root, lastExit, abortcb, calls>>

\* timer_callback of Hub.schedule_call_global, dispatched for a started timer
\* whose delay elapsed, which the loop stops first (no repeat).  The timer of
\* a trampoline throws the timeout exception into its task; any other
\* callback runs in the hub, where it returns, raises or cancels its own
\* timer.  racing: the descriptor of the same trampoline call is ready in the
\* same loop pass.
timer_callback(tm, racing) ==
  /\ cur = HubCtx
  /\ hub.pc = "loop"
  /\ timers[tm].state = "active"
  /\ LET t == timers[tm].owner
         th == fire(timers, tm)
     IN IF t # 0
        THEN LET mine == task[t].pc = "wait" /\ task[t].timer = tm
             IN /\ racing => mine /\ lobj[task[t].listener].handle = "started"
                /\ Resume(t, "Timeout", "timer", racing, lobj,
                          [th EXCEPT ![tm].late = ~mine], "timer_cb", tm)
        ELSE /\ ~racing
             /\ \E b \in {"ok", "raise", "cancel"} :
                  timers' = timer_callback_cleanup(
                              IF b = "cancel" THEN cancel(th, tm) ELSE th, tm, b = "raise")
             /\ UNCHANGED <<listeners, lobj, task, cur, hub, calls>>
  /\ UNCHANGED <<running, stopping, stop_flag, sig_active, root, lastExit, abortcb, calls>>

\* a scheduled call throws an exception into the suspended task t
throw_injected(t) ==
  /\ cur = HubCtx
  /\ hub.pc = "loop"
  /\ task[t].pc = "wait"
  /\ Resume(t, "Injected", "throw", FALSE, lobj, timers, "call_cb", 0)
  /\ UNCHANGED <<running, stopping, stop_flag, sig_active, root, lastExit,
                 abortcb, calls>>

\* the loop starts the spawned task t; the tasks were spawned in the order
\* of their numbers
TaskStart(t) ==
  /\ cur = HubCtx
  /\ hub.pc = "loop"
  /\ task[t].pc = "new"
  /\ \A u \in Task : u < t => task[u].pc # "new"
  /\ task' = [task EXCEPT ![t].pc = "run"]
  /\ cur' = TaskCtx(t)
  /\ hub' = [pc |-> "call_cb", arg |-> 0, exc |-> FALSE, res |-> "none"]
  /\ UNCHANGED <<running, stopping, stop_flag, sig_active, listeners, lobj, timers, root, lastExit,
                 abortcb, calls>>

\* the call that task t made returns to the task's code, or raises and the
\* task catches the exception
call_return(t) ==
  /\ cur = TaskCtx(t)
  /\ task[t].pc = "ret"
  /\ task' = [task EXCEPT ![t] = [NoTask EXCEPT !.pc = "run", !.dead = task[t].dead]]
  /\ lobj' = frame_listener(lobj, t)
  /\ timers' = frame_timer(timers, t)
  /\ hub' = frame_callback(t)
  /\ UNCHANGED <<running, stopping, stop_flag, sig_active, listeners, cur, root, lastExit,
                 abortcb, calls>>

\* the running task t ends, or the exception that the call it made raised
\* is not caught (uncaught); control, and the exception, pass to its parent,
\* the hub, and nothing of the task is left
TaskFinish(t, uncaught) ==
  /\ cur = TaskCtx(t)
  /\ IF uncaught
     THEN task[t].pc = "ret" /\ task[t].result \notin {"ok", "run_returned"}
     ELSE task[t].pc = "run"
  /\ task' = [task EXCEPT ![t] = [NoTask EXCEPT !.pc = "dead"]]
  /\ lobj' = frame_listener(lobj, t)
  /\ timers' = frame_timer(timers, t)
  /\ cur' = HubCtx
  /\ hub' = [frame_callback(t) EXCEPT !.exc = uncaught]
  /\ UNCHANGED <<running, stopping, stop_flag, sig_active, listeners, root, lastExit,
                 abortcb, calls>>

\* the running task schedules a call that resumes no task
schedule_call ==
  /\ cur.k = "task"
  /\ task[cur.t].pc = "run"
  /\ FreeTimers # {}
  /\ timers' = schedule_call_global(timers, Least(FreeTimers), 0)
  /\ UNCHANGED <<running, stopping, stop_flag, sig_active, listeners, lobj, task, cur,
                 hub, root, lastExit, abortcb, calls>>

\* the running task cancels the Timer of such a call
cancel_call(tm) ==
  /\ cur.k = "task"
  /\ task[cur.t].pc = "run"
  /\ tm \in CallId
  /\ timers[tm].state # "unused"
  /\ timers' = cancel(timers, tm)
  /\ UNCHANGED <<running, stopping, stop_flag, sig_active, listeners, lobj, task, cur,
                 hub, root, lastExit, abortcb, calls>>

\* the running task t calls Hub.add for (evtype, fd) itself and then
\* Hub.remove for the listener it got, and keeps the removed listener
add_remove(t, evtype, fd) ==
  /\ cur = TaskCtx(t)
  /\ task[t].pc = "run"
  /\ task[t].dead = <<>>
  /\ LET a == add(listeners, lobj, t, evtype, fd, t, 0)
         r == remove(a.reg, a.lo, t)
     IN IF a.ok
        THEN /\ listeners' = r.reg
             /\ lobj' = frame_listener(r.lo, t)
             /\ task' = [task EXCEPT ![t].dead = <<evtype, fd>>]
        ELSE /\ listeners' = a.reg
             /\ lobj' = a.lo
             /\ task' = [task EXCEPT ![t].pc = "ret", ![t].result = "RuntimeError"]
  /\ UNCHANGED <<running, stopping, stop_flag, sig_active, timers, cur, hub, root,
                 lastExit, abortcb, calls>>

\* the running task t calls Hub.remove for the removed listener it kept,
\* whose handle is None
remove_dead(t) ==
  /\ cur = TaskCtx(t)
  /\ task[t].pc = "run"
  /\ task[t].dead # <<>>
  /\ LET removed == [NoListener EXCEPT !.evtype = task[t].dead[1], !.fd = task[t].dead[2],
                                       !.owner = t, !.handle = "none"]
         r == remove(listeners, [lobj EXCEPT ![t] = removed], t)
     IN /\ listeners' = r.reg
        /\ task' = [task EXCEPT ![t].pc = "ret",
                                ![t].via = "remove",
                                ![t].result = IF r.ok THEN "ok"
                                              ELSE IF r.reg = listeners THEN "KeyError"
                                              ELSE "AttributeError"]
  /\ UNCHANGED <<running, stopping, stop_flag, sig_active, lobj, timers, cur, hub, root,
                 lastExit, abortcb, calls>>

\* AbstractHub.schedule_call_now: the call is put behind the calls that were
\* scheduled before it
schedule_call_now(q, t) == Append(q, t)

gyield_unscheduled(t) ==
  /\ cur = TaskCtx(t)
  /\ task[t].pc = "run"
  /\ calls' = calls
  /\ task' = [task EXCEPT ![t].pc = "yield"]
  /\ cur' = HubCtx
  /\ UNCHANGED <<running, stopping, stop_flag, sig_active, listeners, lobj, timers, hub,
                 root, lastExit, abortcb>>

\* gyield called by the running task t: hub.schedule_call_now(current.switch),
\* then hub.switch(), which gives control to the hub, inside the callback
\* that had resumed the task
gyield(t) ==
  /\ cur = TaskCtx(t)
  /\ task[t].pc = "run"
  /\ calls' = schedule_call_now(calls, t)
  /\ task' = [task EXCEPT ![t].pc = "yield"]
  /\ cur' = HubCtx
  /\ UNCHANGED <<running, stopping, stop_flag, sig_active, listeners, lobj, timers, hub,
                 root, lastExit, abortcb>>

\* the loop makes the first of the calls scheduled by schedule_call_now:
\* current.switch of a task suspended in gyield resumes that task, and
\* hub.switch() returns in it
call_now ==
  /\ cur = HubCtx
  /\ hub.pc = "loop"
  /\ calls # <<>>
  /\ calls' = Tail(calls)
  /\ hub' = [pc |-> "call_cb", arg |-> 0, exc |-> FALSE, res |-> "none"]
  /\ LET t == Head(calls)
     IN IF task[t].pc = "yield"
        THEN /\ task' = [task EXCEPT ![t].pc = "ret", ![t].result = "ok", ![t].via = "now"]
             /\ cur' = TaskCtx(t)
        ELSE UNCHANGED <<task, cur>>
  /\ UNCHANGED <<running, stopping, stop_flag, sig_active, listeners, lobj, timers, root,
                 lastExit, abortcb>>

\* the program whose tasks wait on descriptors: the steps of the hub, of the
\* loop and of tasks that call trampoline, Hub.run and Hub.abort
Next ==
  \/ run
  \/ run_exit
  \/ run_raise
  \/ abort
  \/ signal_received
  \/ root_switch
  \/ callback_return
  \/ \E t \in Task, fd \in Fd, read \in BOOLEAN, write \in BOOLEAN, timeout \in BOOLEAN :
       trampoline(t, fd, read, write, timeout)
  \/ \E l \in ListenerId, e \in {"ready", "closed"}, racing \in BOOLEAN : pyuv_cb(l, e, racing)
  \/ \E tm \in TimerId, racing \in BOOLEAN : timer_callback(tm, racing)
  \/ \E t \in Task : throw_injected(t)
  \/ \E fd \in Fd, read \in BOOLEAN, write \in BOOLEAN, timeout \in BOOLEAN :
       hub_trampoline(fd, read, write, timeout)
  \/ \E t \in Task : TaskStart(t)
  \/ \E t \in Task : call_return(t)
  \/ \E t \in Task, uncaught \in BOOLEAN : TaskFinish(t, uncaught)

Spec == Init /\ [][Next]_vars

\* the program whose tasks schedule calls, cancel them, and call trampoline
\* with a timeout on descriptors that never get ready
NextTimer ==
  \/ run
  \/ run_exit
  \/ abort
  \/ callback_return
  \/ \E t \in Task, fd \in Fd, read \in BOOLEAN, write \in BOOLEAN :
       trampoline(t, fd, read, write, TRUE)
  \/ \E tm \in TimerId : timer_callback(tm, FALSE)
  \/ \E t \in Task : TaskStart(t)
  \/ \E t \in Task : call_return(t)
  \/ \E t \in Task, uncaught \in BOOLEAN : TaskFinish(t, uncaught)
  \/ schedule_call
  \/ \E tm \in CallId : cancel_call(tm)

TimerSpec == Init /\ [][NextTimer]_vars

TypeOK ==
  /\ running \in BOOLEAN /\ stopping \in BOOLEAN /\ stop_flag \in BOOLEAN
  /\ sig_active \in BOOLEAN
  /\ \A e \in {READ, WRITE}, f \in Fd : listeners[e][f] \in {0} \cup ListenerId
  /\ \A l \in ListenerId : lobj[l].handle \in {"unused", "created", "started", "none"}
  /\ \A tm \in TimerId : timers[tm].state \in {"unused", "active", "fired", "closed"}
  /\ \A t \in Task : task[t].pc \in {"new", "run", "wait", "yield", "ret", "dead"}
  /\ cur \in {RootCtx, HubCtx} \cup {TaskCtx(t) : t \in Task}
  /\ hub.pc \in {"init", "loop", "timer_cb", "poll_cb", "call_cb", "signal_cb", "dead"}
  /\ hub.res \in {"none", "AssertionError", "RuntimeError", "switch"}
  /\ abortcb \in {"none", "pending", "completed"}
  /\ \A t \in Task : task[t].dead \in {<<>>} \cup ({READ, WRITE} \X Fd)
  /\ Len(calls) <= NumTasks
  /\ \A i \in 1..Len(calls) : calls[i] \in Task

(***************************************************************************)
(* Fairness: a callback that got control back returns, a call that ended   *)
(* returns to its caller, the code of a task is finite (tasks do not keep  *)
(* getting control without one of them ending), the loop leaves run() once *)
(* stopped or out of work, and it dispatches a started timer.              *)
(***************************************************************************)
Fairness ==
  /\ WF_vars(callback_return)
  /\ WF_vars(\E t \in Task : call_return(t))
  /\ SF_vars(\E t \in Task : TaskFinish(t, FALSE))
  /\ WF_vars(run_exit)
  /\ WF_vars(\E tm \in TimerId : timer_callback(tm, FALSE))

\* the program whose tasks wait, without a timeout, on descriptors that get
\* ready or closed, call Hub.run and Hub.abort, and whose user may interrupt
NextAbort ==
  \/ run
  \/ run_exit
  \/ abort
  \/ signal_received
  \/ root_switch
  \/ callback_return
  \/ \E t \in Task, fd \in Fd, read \in BOOLEAN, write \in BOOLEAN :
       trampoline(t, fd, read, write, FALSE)
  \/ \E l \in ListenerId, e \in {"ready", "closed"} : pyuv_cb(l, e, FALSE)
  \/ \E t \in Task : TaskStart(t)
  \/ \E t \in Task : call_return(t)
  \/ \E t \in Task, uncaught \in BOOLEAN : TaskFinish(t, uncaught)

AbortSpec == Init /\ [][NextAbort]_vars /\ Fairness

\* the program whose tasks wait, with or without a timeout, on descriptors
\* that never get ready, and that may get an exception thrown into them
NextTimeout ==
  \/ run
  \/ run_exit
  \/ abort
  \/ callback_return
  \/ \E t \in Task, fd \in Fd, read \in BOOLEAN, write \in BOOLEAN, timeout \in BOOLEAN :
       trampoline(t, fd, read, write, timeout)
  \/ \E tm \in TimerId : timer_callback(tm, FALSE)
  \/ \E t \in Task : throw_injected(t)
  \/ \E t \in Task : TaskStart(t)
  \/ \E t \in Task : call_return(t)
  \/ \E t \in Task, uncaught \in BOOLEAN : TaskFinish(t, uncaught)

TimeoutSpec == Init /\ [][NextTimeout]_vars /\ Fairness

\* the program whose tasks call Hub.add and Hub.remove themselves, keep the
\* removed listener and remove it again, call Hub.abort, and wait, without
\* a timeout, on descriptors that get ready
NextRemove ==
  \/ run
  \/ run_exit
  \/ abort
  \/ callback_return
  \/ \E t \in Task, fd \in Fd, read \in BOOLEAN, write \in BOOLEAN :
       trampoline(t, fd, read, write, FALSE)
  \/ \E l \in ListenerId : pyuv_cb(l, "ready", FALSE)
  \/ \E t \in Task, evtype \in {READ, WRITE}, fd \in Fd : add_remove(t, evtype, fd)
  \/ \E t \in Task : remove_dead(t)
  \/ \E t \in Task : TaskStart(t)
  \/ \E t \in Task : call_return(t)
  \/ \E t \in Task, uncaught \in BOOLEAN : TaskFinish(t, uncaught)

RemoveSpec == Init /\ [][NextRemove]_vars

\* the program whose tasks call gyield and Hub.abort, and wait, without a
\* timeout, on descriptors that get ready
NextYield ==
  \/ run
  \/ run_exit
  \/ abort
  \/ callback_return
  \/ \E t \in Task, fd \in Fd, read \in BOOLEAN, write \in BOOLEAN :
       trampoline(t, fd, read, write, FALSE)
  \/ \E l \in ListenerId : pyuv_cb(l, "ready", FALSE)
  \/ \E t \in Task : gyield(t)
  \/ call_now
  \/ \E t \in Task : TaskStart(t)
  \/ \E t \in Task : call_return(t)
  \/ \E t \in Task, uncaught \in BOOLEAN : TaskFinish(t, uncaught)

\* the loop makes a scheduled call unless it leaves run() first
YieldSpec == Init /\ [][NextYield]_vars /\ Fairness /\ WF_vars(call_now)

(***************************************************************************)
(* Properties                                                              *)
(***************************************************************************)

\* C1 as stated: right after a trampoline call that registered its listener
\* exits (by the readiness callback, the timeout or an injected exception),
\* the registry has no listener for its (descriptor, direction), the size of
\* the registry is its size before the call, and Hub.remove was invoked once
\* for the listener.
C1_Original ==
  \A t \in Task :
    (cur = TaskCtx(t) /\ task[t].result \in {"ok", "Timeout", "Injected"}) =>
      /\ listeners[task[t].evtype][task[t].fd] = 0
      /\ RegSize(listeners) = task[t].presize
      /\ lobj[task[t].listener].removes = 1

\* C1 amended: every exit of a trampoline call that registered its listener
\* removes exactly the entry of that listener from the registry and changes
\* no other entry, so the registry is one smaller than just before the
\* resumption; right after the exit there is no listener for its
\* (descriptor, direction); Hub.remove is never invoked twice for a listener
\* and never raises.
C1_RemovedOnce ==
  /\ [][\A t \in Task :
          (task[t].pc = "wait" /\ task'[t].pc = "ret") =>
            LET l == task[t].listener
            IN /\ listeners[lobj[l].evtype][lobj[l].fd] = l
               /\ listeners' = [listeners EXCEPT ![lobj[l].evtype][lobj[l].fd] = 0]
               /\ lobj'[l].handle = "none"
               /\ lobj'[l].removes = 1
               /\ task'[t].result \in {"ok", "Timeout", "Injected"}]_vars
  /\ [](\A t \in Task :
          (cur = TaskCtx(t) /\ task[t].result \in {"ok", "Timeout", "Injected"}) =>
            listeners[task[t].evtype][task[t].fd] = 0)
  /\ [](\A l \in ListenerId : lobj[l].removes <= 1 /\ ~lobj[l].err)
  /\ [](\A l \in ListenerId :
          lobj[l].handle = "started" =>
            task[lobj[l].owner].pc = "wait" /\ task[lobj[l].owner].listener = l)

\* a trampoline call left by an exception while the listener of another call
\* is still registered
C1_Witness ==
  \E t \in Task :
    /\ cur = TaskCtx(t)
    /\ task[t].result \in {"Timeout", "Injected"}
    /\ lobj[task[t].listener].removes = 1
    /\ RegSize(listeners) > 0

\* C2: the registry holds at most one listener per (descriptor, direction):
\* of the listeners added and not removed, at most one has a given
\* (direction, descriptor) and it is the registered one; an add for a
\* (direction, descriptor) that has a listener fails with a usage error and
\* registers nothing, any other add registers its listener.
C2_OnePerKey ==
  /\ [](\A e \in {READ, WRITE}, f \in Fd :
          Cardinality({l \in ListenerId : /\ lobj[l].handle = "started"
                                          /\ lobj[l].evtype = e
                                          /\ lobj[l].fd = f}) <= 1)
  /\ [](\A l \in ListenerId :
          /\ lobj[l].handle = "started" => listeners[lobj[l].evtype][lobj[l].fd] = l
          /\ lobj[l].handle # "started" =>
               \A e \in {READ, WRITE}, f \in Fd : listeners[e][f] # l)
  /\ [][\A t \in Task :
          (/\ cur = TaskCtx(t)
           /\ task'[t] # task[t]
           /\ task'[t].pc = "wait" \/ task'[t].result = "RuntimeError") =>
            LET e == task'[t].evtype
                f == task'[t].fd
            IN IF listeners[e][f] # 0
               THEN /\ lobj'[t].handle = "created"
                    /\ listeners' = listeners
                    /\ task'[t].result = "RuntimeError"
                    /\ task'[t].pc = "ret"
               ELSE /\ lobj'[t].handle = "started"
                    /\ lobj'[t].evtype = e
                    /\ lobj'[t].fd = f
                    /\ listeners' = [listeners EXCEPT ![e][f] = t]
                    /\ task'[t].pc = "wait"]_vars
  /\ [][\A l \in ListenerId :
          (lobj[l].handle # "started" /\ lobj'[l].handle = "started") =>
            cur = TaskCtx(l) /\ task'[l].pc = "wait"]_vars

\* a second add for a (direction, descriptor) whose listener is still
\* registered has failed
C2_Witness ==
  \E t \in Task, l \in ListenerId :
    /\ cur = TaskCtx(t)
    /\ task[t].result = "RuntimeError"
    /\ lobj[l].handle = "created"
    /\ listeners[task[t].evtype][task[t].fd] \notin {0, l}

\* C3: a task that trampoline suspended on a descriptor the backend then
\* found closed is resumed with an exception, never with a normal value.
C3_ClosedRaises ==
  \A t \in Task :
    (cur = TaskCtx(t) /\ task[t].via = "closed") => task[t].result # "ok"

C5_FlagsReset == hub.pc \in {"init", "dead"} => ~running /\ ~stopping

\* Hub.run() has exited after abort() stopped its loop
C5_Witness == hub.pc = "dead" /\ lastExit = "stop" /\ ~running /\ ~stopping

C7_Original ==
  \A t \in Task :
    (cur = TaskCtx(t) /\ task[t].result = "Timeout" /\ task[t].via = "timer") =>
      /\ lobj[task[t].listener].handle = "none"
      /\ RegSize(listeners) = task[t].presize

\* C7 amended: a task suspended in a trampoline call with a timeout is
\* eventually resumed, as long as the loop keeps running (run() has not
\* exited and abort() was not called); when it is the timer that resumes it,
\* the task gets the timeout exception, never a value, the listener of the
\* call is removed, the timer closed, and the registry is exactly one entry
\* smaller than just before the timer fired (its size before the call only
\* if no other call registered or removed a listener in between).
C7_Timeout ==
  /\ \A t \in Task :
       (task[t].pc = "wait" /\ task[t].timer # 0) ~>
         (task[t].pc # "wait" \/ ~running \/ stopping)
  /\ [][\A t \in Task, tm \in TimerId :
          (/\ task[t].pc = "wait"
           /\ task[t].timer = tm
           /\ timers[tm].state = "active"
           /\ timers'[tm].state # "active"
           /\ task'[t].pc # "wait") =>
            LET l == task[t].listener
            IN /\ task'[t].via = "timer" => task'[t].result = "Timeout"
               /\ task'[t].via # "timer" => task'[t].result \in {"ok", "Injected"}
               /\ cur' = TaskCtx(t)
               /\ lobj'[l].handle = "none"
               /\ timers'[tm].state = "closed"
               /\ listeners' = [listeners EXCEPT ![lobj[l].evtype][lobj[l].fd] = 0]
               /\ RegSize(listeners') = RegSize(listeners) - 1]_vars
  /\ [](\A t \in Task : task[t].via = "timer" => task[t].result # "ok")

\* the timer alone resumed a trampoline call, whose listener is removed,
\* while the listener of another call is registered
C7_Witness ==
  \E t \in Task :
    /\ cur = TaskCtx(t)
    /\ task[t].result = "Timeout"
    /\ task[t].via = "timer"
    /\ ~task[t].raced
    /\ lobj[task[t].listener].handle = "none"
    /\ timers[task[t].timer].state = "closed"
    /\ RegSize(listeners) = 1

\* C8: when the timer and the readiness of one trampoline call are due in the
\* same loop pass, whichever is dispatched first resumes the task and leaves
\* the listener removed and the timer closed, so the other callback is never
\* dispatched; no callback is ever dispatched to a task whose trampoline call
\* is over, and neither Hub.remove nor Timer.cancel raises.
C8_Race ==
  /\ \A l \in ListenerId : ~lobj[l].late /\ ~lobj[l].err
  /\ \A tm \in TimerId : ~timers[tm].late /\ ~timers[tm].err
  /\ \A t \in Task :
       (cur = TaskCtx(t) /\ task[t].raced) =>
         /\ lobj[task[t].listener].handle = "none"
         /\ timers[task[t].timer].state = "closed"
         /\ \/ task[t].result = "ok" /\ task[t].via \in {"ready", "closed"}
            \/ task[t].result = "Timeout" /\ task[t].via = "timer"

\* the timer won a race against a ready descriptor
C8_Witness ==
  \E t \in Task :
    /\ cur = TaskCtx(t)
    /\ task[t].raced
    /\ task[t].result = "Timeout"
    /\ hub.pc = "timer_cb"

\* C9: the timer of a trampoline call is open only while its task is
\* suspended in that call: once the call has exited, also by a failed
\* registration, its timer is closed, and no timer throws into a task whose
\* call is over.
C9_TimerCancelled ==
  /\ \A tm \in TimerId :
       /\ ~timers[tm].late
       /\ timers[tm].owner # 0 =>
            /\ timers[tm].state = "active"
            /\ task[timers[tm].owner].pc = "wait"
            /\ task[timers[tm].owner].timer = tm
  /\ \A t \in Task :
       (task[t].pc = "ret" /\ task[t].timer # 0) => timers[task[t].timer].state = "closed"

\* a registration failed after the timer had been scheduled
C9_Witness ==
  \E t \in Task :
    /\ cur = TaskCtx(t)
    /\ task[t].result = "RuntimeError"
    /\ task[t].timer # 0
    /\ timers[task[t].timer].state = "closed"

\* C10: Timer.cancel() on a timer that has fired or has been cancelled never
\* raises and never stops or closes a closed handle; on a closed handle it
\* changes nothing, a repeated cancel() changes nothing more, and it changes
\* no other timer.
C10_CancelNoOp ==
  \A tm \in TimerId :
    /\ ~timers[tm].err
    /\ timers[tm].state \in {"fired", "closed"} =>
         LET th == cancel(timers, tm)
         IN /\ ~th[tm].err
            /\ th[tm].state = "closed"
            /\ \A o \in TimerId \ {tm} : th[o] = timers[o]
            /\ timers[tm].state = "closed" => th = timers
            /\ cancel(th, tm) = th

\* the timer was cancelled inside its own callback, which has still to return
C10_Witness == hub.pc = "timer_cb" /\ hub.arg # 0 /\ timers[hub.arg].state = "closed"
\* C11: a timer handle that has fired is closed once its timer_callback has
\* finished, also when the callback raised: a fired handle that is not closed
\* is the handle of the timer_callback that is still executing.
C11_ClosedAfterFire ==
  \A tm \in TimerId :
    timers[tm].state = "fired" => (hub.pc = "timer_cb" /\ hub.arg = tm)

\* C12: the timer_callback of a timer is called at most once; it is called
\* only for a started timer that has not fired, and never for a timer that
\* was cancelled before (a closed handle).
C12_AtMostOnce ==
  /\ [](\A tm \in TimerId : timers[tm].fires <= 1)
  /\ [][\A tm \in TimerId :
          timers'[tm].fires > timers[tm].fires =>
            /\ timers[tm].state = "active"
            /\ timers[tm].fires = 0
            /\ timers'[tm].state # "active"]_vars

\* one scheduled call has run and another was cancelled before it fired
C12_Witness ==
  \E tm \in CallId, o \in CallId :
    /\ timers[tm].state = "closed" /\ timers[tm].fires = 0
    /\ timers[o].state = "closed" /\ timers[o].fires = 1

\* C13: KeyboardInterrupt reaches the root greenlet only from the signal
\* handler, dispatched by the loop; when it does, the signal handle has been
\* stopped and abort() has been called (the loop is told to stop, stopping is
\* set since the hub is running), the root greenlet is the one that goes on
\* and no task is resumed or changed; it is raised at most once per hub.
C13_Interrupt ==
  /\ [][root'.kbd # root.kbd =>
          /\ root'.kbd = root.kbd + 1
          /\ cur = HubCtx /\ hub.pc = "loop"
          /\ sig_active /\ ~sig_active'
          /\ stop_flag'
          /\ running => stopping'
          /\ running' = running
          /\ cur' = RootCtx
          /\ task' = task]_vars
  /\ [](root.kbd <= 1)
  /\ [](root.kbd = 1 => ~sig_active)

\* the interrupt has reached the root greenlet while a task was suspended in
\* trampoline
C13_Witness ==
  /\ root.kbd = 1
  /\ cur = RootCtx
  /\ hub.pc = "signal_cb"
  /\ stopping
  /\ \E t \in Task : task[t].pc = "wait"

\* C14: a trampoline call that violates a precondition (made in the hub
\* greenlet, or with both or neither of read and write) fails with an
\* AssertionError before it does anything: a call made in the hub greenlet
\* ends by an assertion of trampoline, and the step of a call that ends so
\* changes neither the registry nor a listener nor a timer.
C14_PreconditionFails ==
  /\ [](hub.res \in {"none", "AssertionError"})
  /\ [][\A t \in Task :
          (cur = TaskCtx(t) /\ task[t].pc = "run" /\ task'[t].result = "AssertionError") =>
            UNCHANGED <<listeners, lobj, timers, cur, hub>>]_vars

\* C15: a task that calls gyield is put at the tail of the scheduled calls and
\* gives control to the hub; a task is resumed from gyield only by the loop,
\* in a later iteration, when it is the first of the scheduled calls, so the
\* tasks are resumed in the order of their gyield calls; and every task that
\* called gyield is resumed unless the loop leaves run() first
C15_YieldFIFO ==
  /\ [][\A t \in Task :
          /\ (task[t].pc # "yield" /\ task'[t].pc = "yield") =>
                /\ calls' = Append(calls, t)
                /\ cur = TaskCtx(t) /\ cur' = HubCtx
                /\ hub'.pc # "loop"
          /\ (task[t].pc = "yield" /\ task'[t].pc # "yield") =>
                /\ cur = HubCtx /\ hub.pc = "loop"
                /\ calls # <<>> /\ Head(calls) = t
                /\ calls' = Tail(calls)
                /\ cur' = TaskCtx(t)
                /\ task'[t].result = "ok"]_vars
  /\ [](\A t \in Task : task[t].pc = "yield" <=> \E i \in 1..Len(calls) : calls[i] = t)
  /\ \A t \in Task :
       (task[t].pc = "yield") ~> (task[t].pc # "yield" \/ hub.pc = "dead")

\* C15 happens: task 2, which called gyield before task 1 did, is resumed
\* while task 1 is still waiting for its turn
C15_Witness ==
  /\ NumTasks >= 2
  /\ cur = TaskCtx(2)
  /\ task[2].pc = "ret" /\ task[2].via = "now" /\ task[2].result = "ok"
  /\ task[1].pc = "yield"
  /\ calls = <<1>>

\* C16: in every state in which Hub.abort can be called (by the root greenlet
\* or by a running task), calling it twice gives the state that calling it
\* once gives; the call sets stopping only if the hub is running, never
\* changes running, and on a hub that is not running it leaves running and
\* stopping false
C16_AbortIdempotent ==
  (cur.k = "root" \/ (cur.k = "task" /\ task[cur.t].pc = "run")) =>
    LET once == abort_state(HubState)
        twice == abort_state(once)
    IN /\ twice = once
       /\ once.running = running
       /\ (once.stopping /\ ~stopping) => running
       /\ running => once.stopping
       /\ ~running => (~once.running /\ ~once.stopping)

\* C16 happens: a running task called abort() during run(), no interrupt was
\* handled, and the task can call abort() again
C16_Witness ==
  /\ cur.k = "task" /\ task[cur.t].pc = "run"
  /\ running /\ stopping /\ stop_flag
  /\ sig_active

\* C17: when a task calls Hub.remove for a listener that was removed before,
\* the call raises and the registry is as it was before the call
C17_DoubleRemove ==
  [][\A t \in Task :
       (cur = TaskCtx(t) /\ task[t].pc = "run" /\ task[t].dead # <<>>
          /\ task'[t].pc = "ret" /\ task'[t].via = "remove") =>
         /\ task'[t].result \in {"KeyError", "AttributeError"}
         /\ listeners' = listeners]_vars

\* C18: when the Hub.add call of a trampoline fails because a listener is
\* registered for its (evtype, fd), the registry is unchanged, the poll
\* handles that were started are as they were, and no poll handle is left
\* created and not closed
C18_FailedAdd ==
  [][\A t \in Task :
       (cur = TaskCtx(t) /\ task[t].pc = "run"
          /\ task'[t].pc = "ret" /\ task'[t].result = "RuntimeError") =>
         /\ listeners' = listeners
         /\ \A l \in ListenerId : lobj[l].handle = "started" => lobj'[l] = lobj[l]
         /\ \A l \in ListenerId : lobj'[l].handle # "created"]_vars

\* C19: in every state stopping implies running, so a hub that is not running
\* is not stopping and Hub.run called on it does not return at its first
\* test; stopping is set only in a step that calls abort() (it also requests
\* the loop to stop) while the hub is running, and running is never cleared
\* while stopping stays set
C19_StoppingImpliesRunning ==
  /\ [](stopping => running)
  /\ [][/\ (stopping' /\ ~stopping) => (running /\ running' /\ stop_flag')
        /\ (running /\ ~running') => ~stopping'
        /\ \A t \in Task :
             (task[t].pc = "run" /\ task'[t].result = "run_returned") => running]_vars

\* C19 happens: a task called Hub.run while the hub was stopping, and running,
\* and the call returned at its first test
C19_Witness ==
  /\ cur.k = "task"
  /\ task[cur.t].pc = "ret" /\ task[cur.t].result = "run_returned"
  /\ stopping /\ running

\* C20: once the interrupt signal has been handled during run() (the signal
\* handle stopped, abort() called, KeyboardInterrupt thrown into the root
\* greenlet), run() eventually exits with running and stopping false, whether
\* or not the root greenlet switches back into the hub
C20_InterruptExits ==
  (root.kbd >= 1 /\ ~sig_active /\ stop_flag) ~> (hub.pc = "dead" /\ ~running /\ ~stopping)
====
